---- MODULE Spec2Model ----
(***************************************************************************)
(* A model of the KursarScript (KSPL) interpreter:                         *)
(*   KSPLInterpreter.parse / parse_class / parse_function / load_class,    *)
(*   eval_expression / eval_function_call / split_arguments,               *)
(*   execute_statement / execute_block / run, KSPLClass and KSPLObject.    *)
(*                                                                         *)
(* A source line is modelled by what the interpreter's regular expressions *)
(* and prefix tests extract from it: the kind of line (k), the name (n),   *)
(* the parameter list or property path (p), the expression (e) and the     *)
(* numbers of '{' (o) and '}' (c) characters in it.                        *)
(***************************************************************************)
EXTENDS Integers, Sequences, FiniteSets, TLC

VARIABLES
    source,      \* the lines of the source text given to run
    statements,  \* run's local `statements`: the result of parse
    phase,       \* position in run: "start", "pass1", "pass2", "done", "failed"
    i,           \* index of the statement the current pass of run is at
    classes,     \* KSPLInterpreter.classes : name -> KSPLClass
    globals,     \* KSPLInterpreter.globals : name -> value
    heap,        \* the KSPLObject instances, each its __dict__
    out,         \* what builtin_print has written, in order
    stack,       \* the active execute_block calls, innermost last
    run_body,    \* run's local `body`, the cell every function lambda reads
    run_params,  \* run's local `params`, the cell every function lambda reads
    error,       \* the exception that ended run, "" when none
    calls,       \* history: one record per finished function or method call
    raised,      \* history: the exceptions raised, each with the statement index
                 \* and the globals and heap it was raised in
    args_text,   \* split_arguments: its input
    args,        \* split_arguments: its result
    split_done,  \* split_arguments: whether it has returned
    csource,     \* KSPLCompiler.compile: the lines of its source
    tokens,      \* KSPLCompiler.compile: the result of tokenize
    ast,         \* KSPLCompiler.compile: the result of parse
    cphase,      \* KSPLCompiler.compile: "start", "tokenized", "parsed" or "failed"
    cerror       \* KSPLCompiler.compile: the KSPLCompileError raised, "" when none

vars == <<source, statements, phase, i, classes, globals, heap, out, stack,
          run_body, run_params, error, calls, raised, args_text, args, split_done,
          csource, tokens, ast, cphase, cerror>>

run_vars == <<source, statements, phase, i, classes, globals, heap, out, stack,
              run_body, run_params, error, calls, raised>>

split_vars == <<args_text, args, split_done>>

compile_vars == <<csource, tokens, ast, cphase, cerror>>

-----------------------------------------------------------------------------
(* Values.  Every value is a record of the same shape: t is the Python type, *)
(* v a number (the integer, the truth value, the heap address) and n a name. *)

IntV(x)   == [t |-> "int",    v |-> x, n |-> ""]
BoolV(b)  == [t |-> "bool",   v |-> IF b THEN 1 ELSE 0, n |-> ""]
NoneV     == [t |-> "none",   v |-> 0, n |-> ""]
ObjV(r)   == [t |-> "obj",    v |-> r, n |-> ""]      \* a KSPLObject, by address
ClassV(c) == [t |-> "class",  v |-> 0, n |-> c]       \* a KSPLClass, by name
HostV(f)  == [t |-> "host",   v |-> 0, n |-> f]       \* a host function or type
CtorV(c)  == [t |-> "ctor",   v |-> 0, n |-> c]       \* make_constructor(cls_name)
LambdaV(f) == [t |-> "lambda", v |-> 0, n |-> f]      \* the lambda run registers for fn f

EmptyDict == [x \in {} |-> NoneV]

\* r = x, then F(r): a local variable of the code, assigned once and read by what
\* follows.
Bind(x, F(_)) == F(x)

\* Python's callable(value)
callable(val) == val.t \in {"host", "ctor", "lambda"}

-----------------------------------------------------------------------------
(* Expressions, as eval_expression classifies their text.                   *)
(*   "lit"   a number, true, false or null: v is the value                  *)
(*   "var"   a bare name n                                                  *)
(*   "call"  text with '(' that ends with ')': n is the first part of the   *)
(*           dotted callee, p the parts after it, a the argument texts      *)
(*   "paren" text such as (true): it has '(' and ends with ')' but no       *)
(*           callee name in front                                           *)
(*   "prop"  text with '.': n is the part before the first dot, p the parts *)
(*           after it (for self.n + 1 the one part "n + 1")                 *)
(*   "add"   n + v, text that only the fallback eval can evaluate           *)
(*   "none"  no expression                                                  *)

Expr(k, n, p, a, v) == [k |-> k, n |-> n, p |-> p, a |-> a, v |-> v]
NoExpr        == Expr("none", "", <<>>, <<>>, NoneV)
Lit(val)      == Expr("lit", "", <<>>, <<>>, val)
Var(n)        == Expr("var", n, <<>>, <<>>, NoneV)
Call(n, a)    == Expr("call", n, <<>>, a, NoneV)
MCall(n, m, a) == Expr("call", n, <<m>>, a, NoneV)
Paren(val)    == Expr("paren", "", <<>>, <<>>, val)
Prop(n, p)    == Expr("prop", n, p, <<>>, NoneV)
Add(n, x)     == Expr("add", n, <<>>, <<>>, IntV(x))

(* Lines.  k is one of                                                      *)
(*   "blank"    empty, or a // comment                                      *)
(*   "class"    class N {            "badclass"  starts with 'class ' but   *)
(*                                               is no class header         *)
(*   "fn"       fn n(p) {            "badfn"     starts with 'fn ' but is   *)
(*                                               no function header         *)
(*   "field"    field n = e                                                 *)
(*   "let"      let n = e                                                   *)
(*   "assign"   n = e                "passign"   n.p = e                    *)
(*   "return"   return e                                                    *)
(*   "if"       if e {   (o = 1), or the whole                              *)
(*              if e { return 1 } else { return 2 }   on one line (o = c = 2) *)
(*   "else"     } else {                                                    *)
(*   "close"    }                                                           *)
(*   "expr"     anything else: the expression e                             *)

Line(k, n, p, e, o, c) == [k |-> k, n |-> n, p |-> p, e |-> e, o |-> o, c |-> c]
BlankLine          == Line("blank", "", <<>>, NoExpr, 0, 0)
ClassLine(n)       == Line("class", n, <<>>, NoExpr, 1, 0)
BadClassLine(n)    == Line("badclass", n, <<>>, NoExpr, 0, 0)
FnLine(n, p)       == Line("fn", n, p, NoExpr, 1, 0)
BadFnLine(n)       == Line("badfn", n, <<>>, NoExpr, 0, 0)
FieldLine(n, e)    == Line("field", n, <<>>, e, 0, 0)
LetLine(n, e)      == Line("let", n, <<>>, e, 0, 0)
AssignLine(n, e)   == Line("assign", n, <<>>, e, 0, 0)
PAssignLine(n, p, e) == Line("passign", n, p, e, 0, 0)
ReturnLine(e)      == Line("return", "", <<>>, e, 0, 0)
IfLine(e)          == Line("if", "", <<>>, e, 1, 0)
IfElseOneLine(e)   == Line("if", "", <<>>, e, 2, 2)
ElseLine           == Line("else", "", <<>>, NoExpr, 1, 1)
CloseLine          == Line("close", "", <<>>, NoExpr, 0, 1)
ExprLine(e)        == Line("expr", "", <<>>, e, 0, 0)

-----------------------------------------------------------------------------
(* parse, parse_class, parse_function                                       *)

\* A parsed statement: ('class', name, body), ('function', name, params, body)
\* or ('stmt', line).
Stmt(tag, n, p, b, l) == [tag |-> tag, name |-> n, params |-> p, body |-> b, line |-> l]

\* The loop `while i < len(lines) and depth > 0` of parse_class, parse_function
\* and load_class: the body collected, the index after the block, and the depth
\* the loop ended with.
RECURSIVE scan_block(_, _, _, _)
scan_block(lines, idx, depth, acc) ==
    IF idx <= Len(lines) /\ depth > 0
    THEN LET d == depth + lines[idx].o - lines[idx].c
         IN  scan_block(lines, idx + 1, d, IF d > 0 THEN Append(acc, lines[idx]) ELSE acc)
    ELSE [body |-> acc, next |-> idx, depth |-> depth]

parse_class(lines, start) ==
    IF lines[start].k # "class"
    THEN [err |-> "KSPLRuntimeError: Invalid class definition", stmt |-> Stmt("", "", <<>>, <<>>, BlankLine), next |-> start]
    ELSE Bind(scan_block(lines, start + 1, 1, <<>>), LAMBDA b :
            [err |-> "", stmt |-> Stmt("class", lines[start].n, <<>>, b.body, BlankLine), next |-> b.next])

parse_function(lines, start) ==
    IF lines[start].k # "fn"
    THEN [err |-> "KSPLRuntimeError: Invalid function definition", stmt |-> Stmt("", "", <<>>, <<>>, BlankLine), next |-> start]
    ELSE Bind(scan_block(lines, start + 1, 1, <<>>), LAMBDA b :
            [err |-> "", stmt |-> Stmt("function", lines[start].n, lines[start].p, b.body, BlankLine), next |-> b.next])

RECURSIVE parse_from(_, _, _)
parse_from(lines, idx, acc) ==
    IF idx > Len(lines) THEN [err |-> "", statements |-> acc]
    ELSE IF lines[idx].k = "blank" THEN parse_from(lines, idx + 1, acc)
         ELSE IF lines[idx].k \in {"class", "badclass"}
         THEN Bind(parse_class(lines, idx), LAMBDA r :
                  IF r.err # "" THEN [err |-> r.err, statements |-> <<>>]
                  ELSE parse_from(lines, r.next, Append(acc, r.stmt)))
         ELSE IF lines[idx].k \in {"fn", "badfn"}
         THEN Bind(parse_function(lines, idx), LAMBDA r :
                  IF r.err # "" THEN [err |-> r.err, statements |-> <<>>]
                  ELSE parse_from(lines, r.next, Append(acc, r.stmt)))
         ELSE parse_from(lines, idx + 1, Append(acc, Stmt("stmt", "", <<>>, <<>>, lines[idx])))

parse(lines) == parse_from(lines, 1, <<>>)

-----------------------------------------------------------------------------
(* The interpreter's mutable state while one statement is evaluated.        *)

State(g, h, o) == [globals |-> g, heap |-> h, out |-> o]

\* setup_builtins: the names seeded into self.globals at construction.
HostNames == {"create_virtucard", "transfer", "VirtualTerminal", "Avatar", "VirtualItem",
              "print", "len", "str", "int", "float", "bool",
              "get_avatar", "create_portal", "get_environment"}

setup_builtins ==
    [nm \in HostNames \cup {"true", "false", "null"} |->
        CASE nm = "true"  -> BoolV(TRUE)
          [] nm = "false" -> BoolV(FALSE)
          [] nm = "null"  -> NoneV
          [] OTHER        -> HostV(nm)]

\* d[k] = val on a Python dict
DictSet(d, k, val) == (k :> val) @@ d

\* d.update(e)
DictUpdate(d, e) == e @@ d

\* hasattr(val, prop).  An instance has the keys of its __dict__.  The attributes
\* Python itself gives to numbers, to KSPLClass and to host objects are not in the
\* model: no program the model draws names one.
hasattr(val, prop, h) == val.t = "obj" /\ prop \in DOMAIN h[val.v]

\* getattr(val, prop), where hasattr(val, prop)
getattr(val, prop, h) == h[val.v][prop]

Ok(val, st)  == [err |-> "", val |-> val, st |-> st, enter |-> FALSE, body |-> <<>>, env |-> EmptyDict]
Fail(e, st)  == [err |-> e, val |-> NoneV, st |-> st, enter |-> FALSE, body |-> <<>>, env |-> EmptyDict]
\* the evaluation continues in execute_block(b, env)
Enter(b, env, st) == [err |-> "", val |-> NoneV, st |-> st, enter |-> TRUE, body |-> b, env |-> env]

\* The property walk of eval_expression (lines 246-252) and of the property
\* assignment (lines 393-399): follow props from obj.
RECURSIVE walk_props(_, _, _)
walk_props(obj, props, h) ==
    IF props = <<>> THEN [err |-> "", val |-> obj]
    ELSE IF hasattr(obj, Head(props), h)
         THEN walk_props(getattr(obj, Head(props), h), Tail(props), h)
         ELSE [err |-> "KSPLRuntimeError: Property not found", val |-> NoneV]

\* eval_expression on text that is no call: literals, names, property access and
\* the fallback eval.
eval_simple(e, env, st) ==
    CASE e.k = "lit" -> Ok(e.v, st)
      [] e.k = "var" ->
            IF e.n \in DOMAIN env THEN Ok(env[e.n], st)
            ELSE IF e.n \in DOMAIN st.globals THEN Ok(st.globals[e.n], st)
            ELSE Fail("KSPLRuntimeError: Could not evaluate expression", st)
      [] e.k = "prop" ->
            IF e.n \notin DOMAIN env /\ e.n \notin DOMAIN st.globals
            THEN Fail("KSPLRuntimeError: Could not evaluate expression", st)
            ELSE Bind(walk_props(IF e.n \in DOMAIN env THEN env[e.n] ELSE st.globals[e.n], e.p, st.heap),
                      LAMBDA w : IF w.err # "" THEN Fail(w.err, st) ELSE Ok(w.val, st))
      [] e.k = "add" ->
            \* safe_env = globals updated by local_env; eval of `n + v`
            Bind(DictUpdate(st.globals, env), LAMBDA safe_env :
                IF e.n \in DOMAIN safe_env /\ safe_env[e.n].t \in {"int", "bool"}
                THEN Ok(IntV(safe_env[e.n].v + e.v.v), st)
                ELSE Fail("KSPLRuntimeError: Could not evaluate expression", st))
      [] OTHER -> Fail("KSPLRuntimeError: Could not evaluate expression", st)

\* The arguments of a call, evaluated left to right (lines 280-284).  The argument
\* texts the model draws are no calls themselves.
RECURSIVE eval_args(_, _, _, _)
eval_args(a, env, st, acc) ==
    IF a = <<>> THEN [err |-> "", vals |-> acc]
    ELSE Bind(eval_simple(Head(a), env, st), LAMBDA r :
             IF r.err # "" THEN [err |-> r.err, vals |-> acc]
             ELSE eval_args(Tail(a), env, st, Append(acc, r.val)))

\* dict(zip(params, args))
RECURSIVE zip_env(_, _)
zip_env(ps, vals) ==
    IF ps = <<>> \/ vals = <<>> THEN EmptyDict
    ELSE DictUpdate(Head(ps) :> Head(vals), zip_env(Tail(ps), Tail(vals)))

\* The parameter binding of call_method (lines 500-507)
RECURSIVE bind_params(_, _, _)
bind_params(env, ps, vals) ==
    IF ps = <<>> THEN env
    ELSE bind_params(DictSet(env, Head(ps), IF vals = <<>> THEN NoneV ELSE Head(vals)),
                     Tail(ps), IF vals = <<>> THEN <<>> ELSE Tail(vals))

\* KSPLObject.call_method(method_name, interpreter, args) on the instance obj whose
\* __dict__ is d; interp tells whether an interpreter was passed (None otherwise).
call_method(obj, d, method_name, interp, vals, st) ==
    IF d["_klass"].t # "class" THEN Fail("AttributeError", st)
    ELSE Bind(classes[d["_klass"].n], LAMBDA klass :
         IF method_name \notin DOMAIN klass.methods
         THEN Fail("KSPLRuntimeError: Method not found in class", st)
         ELSE IF ~interp THEN Fail("AttributeError", st)
         ELSE Enter(klass.methods[method_name].body,
                    bind_params("self" :> obj, klass.methods[method_name].params, vals), st))

\* KSPLObject.__init__(klass, args): the new instance, or the failure of init.
KSPLObject(cname, vals, st) ==
    Bind(DictUpdate("_klass" :> ClassV(cname), classes[cname].fields), LAMBDA d0 :
        IF "init" \in DOMAIN classes[cname].methods
        THEN Fail(call_method(ObjV(Len(st.heap) + 1), d0, "init", FALSE, vals, st).err, st)
        ELSE Ok(ObjV(Len(st.heap) + 1),
                State(st.globals,
                      Append(st.heap, IF Len(vals) > 0 THEN DictSet(d0, "name", vals[1]) ELSE d0),
                      st.out)))

\* Calling a Python callable held in globals or found by hasattr.
call_value(f, vals, st) ==
    CASE f.t = "host" /\ f.n = "print" ->
            Ok(NoneV, State(st.globals, st.heap, Append(st.out, vals)))
      [] f.t = "host" /\ f.n # "print" ->
            \* the other host functions live in runtime.py and in Python itself;
            \* no program the model draws calls one
            Fail("HostCall", st)
      [] f.t = "ctor" ->
            IF f.n \in DOMAIN classes THEN KSPLObject(f.n, vals, st) ELSE Fail("KeyError", st)
      [] f.t = "lambda" -> Enter(run_body, zip_env(run_params, vals), st)
      [] OTHER -> Fail("TypeError", st)

\* The method call of eval_function_call (lines 287-298) on the receiver obj
method_call(obj, method_name, vals, st) ==
    IF hasattr(obj, method_name, st.heap)
    THEN call_value(getattr(obj, method_name, st.heap), vals, st)
    ELSE IF obj.t = "obj"
    THEN Bind(call_method(obj, st.heap[obj.v], method_name, TRUE, vals, st), LAMBDA r :
             IF r.err = "KSPLRuntimeError: Method not found in class"
             THEN Fail("KSPLRuntimeError: Method not found", st)
             ELSE r)
    ELSE Fail("KSPLRuntimeError: Method not found", st)

\* eval_function_call once the arguments are evaluated (lines 286-309)
apply_callee(e, vals, env, st) ==
    IF e.p # <<>>
    THEN Bind(eval_simple(Var(e.n), env, st), LAMBDA o :
             IF o.err # "" THEN Fail(o.err, st)
             ELSE method_call(o.val, e.p[1], vals, st))
    ELSE IF e.n \in DOMAIN st.globals /\ callable(st.globals[e.n])
    THEN call_value(st.globals[e.n], vals, st)
    ELSE IF e.n \in DOMAIN classes
    THEN KSPLObject(e.n, vals, st)
    ELSE Fail("KSPLRuntimeError: Function not found", st)

eval_function_call(e, env, st) ==
    IF e.k # "call" THEN Fail("KSPLRuntimeError: Invalid function call", st)
    ELSE Bind(eval_args(e.a, env, st, <<>>), LAMBDA a :
             IF a.err # "" THEN Fail(a.err, st)
             ELSE apply_callee(e, a.vals, env, st))

eval_expression(e, env, st) ==
    IF e.k \in {"call", "paren"} THEN eval_function_call(e, env, st)
    ELSE eval_simple(e, env, st)

-----------------------------------------------------------------------------
(* load_class, KSPLClass                                                    *)

KSPLClass(name, methods, fields) == [name |-> name, methods |-> methods, fields |-> fields]

\* The loop of load_class over the lines of a class body.  A field's default
\* expression is evaluated here, once, with an empty local environment.  (On a
\* fresh interpreter no lambda and no instance exists during the first pass, so
\* such an evaluation never enters a KSPL body.)
RECURSIVE load_from(_, _, _, _, _)
load_from(lines, idx, methods, fields, st) ==
    IF idx > Len(lines) THEN [err |-> "", methods |-> methods, fields |-> fields, st |-> st]
    ELSE IF lines[idx].k = "fn"
         THEN Bind(scan_block(lines, idx + 1, 1, <<>>), LAMBDA b :
                  load_from(lines, b.next,
                            DictSet(methods, lines[idx].n, [params |-> lines[idx].p, body |-> b.body]),
                            fields, st))
         ELSE IF lines[idx].k = "field"
         THEN Bind(eval_expression(lines[idx].e, EmptyDict, st), LAMBDA r :
                  IF r.err # "" THEN [err |-> r.err, methods |-> methods, fields |-> fields, st |-> r.st]
                  ELSE IF r.enter THEN [err |-> "NestedCall", methods |-> methods, fields |-> fields, st |-> r.st]
                  ELSE load_from(lines, idx + 1, methods, DictSet(fields, lines[idx].n, r.val), r.st))
         ELSE load_from(lines, idx + 1, methods, fields, st)

load_class(class_name, lines, st) ==
    Bind(load_from(lines, 1, EmptyDict, EmptyDict, st), LAMBDA r :
        [err |-> r.err, klass |-> KSPLClass(class_name, r.methods, r.fields), st |-> r.st])

-----------------------------------------------------------------------------
(* execute_statement                                                        *)

Done(res, env, st) == [err |-> "", res |-> res, env |-> env, st |-> st]
Raise(e, env, st)  == [err |-> e, res |-> NoneV, env |-> env, st |-> st]

\* setattr(current, prop, value) (line 402): only an instance takes a new
\* attribute; numbers, booleans and None raise AttributeError.
setattr(current, prop, value, env, st) ==
    IF current.t = "obj"
    THEN Done(value, env,
              State(st.globals,
                    [st.heap EXCEPT ![current.v] = DictSet(st.heap[current.v], prop, value)],
                    st.out))
    ELSE Raise("AttributeError", env, st)

\* A let that writes the binding into self.globals instead of local_env
let_binding_global(line, value, env, st) ==
    Done(value, env, State(DictSet(st.globals, line.n, value), st.heap, st.out))

\* local_env[var_name] = value  (line 368)
let_binding(line, value, env, st) == Done(value, DictSet(env, line.n, value), st)

\* What execute_statement does with the value of the statement's expression:
\* the let binding (line 368), the assignment (lines 378-410), and the result
\* of return (line 415), if (line 424) and a bare expression (line 427).
complete_statement(line, value, env, st) ==
    CASE line.k = "let" -> let_binding(line, value, env, st)
      [] line.k = "assign" ->
            IF line.n \in DOMAIN env
            THEN Done(value, DictSet(env, line.n, value), st)
            ELSE Done(value, env, State(DictSet(st.globals, line.n, value), st.heap, st.out))
      [] line.k = "passign" ->
            IF line.n \notin DOMAIN env /\ line.n \notin DOMAIN st.globals
            THEN Raise("KSPLRuntimeError: Variable not found", env, st)
            ELSE Bind(walk_props(IF line.n \in DOMAIN env THEN env[line.n] ELSE st.globals[line.n],
                                 SubSeq(line.p, 1, Len(line.p) - 1), st.heap),
                      LAMBDA w : IF w.err # "" THEN Raise(w.err, env, st)
                                 ELSE setattr(w.val, line.p[Len(line.p)], value, env, st))
      [] OTHER -> Done(value, env, st)

\* Lines that execute_statement evaluates an expression of
HasExpr(line) == line.k \in {"let", "assign", "passign", "return", "if", "expr"}

\* execute_statement(stmt, local_env), up to the point where the evaluation of
\* its expression enters a KSPL body (enter = TRUE: the statement is completed by
\* complete_statement when that body has returned).
execute_statement(line, env, st) ==
    IF line.k = "blank"
    THEN [err |-> "", res |-> NoneV, env |-> env, st |-> st, enter |-> FALSE, body |-> <<>>, cenv |-> EmptyDict]
    ELSE IF HasExpr(line)
    THEN Bind(eval_expression(line.e, env, st), LAMBDA r :
         IF r.err # ""
         THEN [err |-> r.err, res |-> NoneV, env |-> env, st |-> r.st, enter |-> FALSE, body |-> <<>>, cenv |-> EmptyDict]
         ELSE IF r.enter
         THEN [err |-> "", res |-> NoneV, env |-> env, st |-> r.st, enter |-> TRUE, body |-> r.body, cenv |-> r.env]
         ELSE Bind(complete_statement(line, r.val, env, r.st), LAMBDA c :
              [err |-> c.err, res |-> c.res, env |-> c.env, st |-> c.st, enter |-> FALSE, body |-> <<>>, cenv |-> EmptyDict]))
    ELSE \* a header, a field line, `} else {` or `}`: no statement form matches and
         \* eval_expression cannot evaluate the text
         [err |-> "KSPLRuntimeError: Could not evaluate expression", res |-> NoneV, env |-> env, st |-> st,
          enter |-> FALSE, body |-> <<>>, cenv |-> EmptyDict]

-----------------------------------------------------------------------------
(* execute_block: one frame per active call.                                *)
(*   body, pc   the statements and the index of the next one                *)
(*   env        local_env                                                   *)
(*   result     the local `result`                                          *)
(*   pending    the caller's statement whose expression made the call       *)
(*   g0, o0, seen   history: globals and the length of out at entry, and the *)
(*              indices of the statements run                               *)

Frame(b, env, pending, g0) ==
    [body |-> b, pc |-> 1, env |-> env, result |-> NoneV, pending |-> pending,
     g0 |-> g0, o0 |-> Len(out), seen |-> <<>>]

\* The test of line 437: the result is a dict whose '__return__' entry is true.
\* No value execute_statement returns in the model is a dict.
IsReturnSignal(val) == val.t = "dict"

\* A run that catches the exception of a statement and goes on with the next
RunSwallows(e) == [phase |-> phase, error |-> "", i |-> i + 1]

\* An exception that no handler catches leaves run (lines 442-471 hold no try).
RunRaises(e) == [phase |-> "failed", error |-> e, i |-> i]

Top == stack[Len(stack)]

-----------------------------------------------------------------------------
(* The programs run is given.                                               *)

MaxBody  == 3    \* lines in a drawn function body
MaxTop   == 3    \* top-level items in a drawn program
MaxLines == 4    \* lines in a drawn source of headers and closes

RECURSIVE SeqsUpTo(_, _)
SeqsUpTo(S, n) ==
    IF n = 0 THEN {<<>>}
    ELSE LET shorter == SeqsUpTo(S, n - 1)
         IN  shorter \cup {Append(q, x) : q \in shorter, x \in S}

RECURSIVE Flatten(_)
Flatten(items) == IF items = <<>> THEN <<>> ELSE Head(items) \o Flatten(Tail(items))

PrintX == ExprLine(Call("print", <<Var("x")>>))
PrintN(k) == ExprLine(Call("print", <<Lit(IntV(k))>>))

\* The lines a drawn function body is made of
BodyLines ==
    { PrintX,
      ReturnLine(Lit(IntV(1))),
      ReturnLine(Var("x")),
      LetLine("x", Lit(IntV(7))),
      AssignLine("x", Lit(IntV(9))),
      AssignLine("y", Var("p")) }

FlatBodies == SeqsUpTo(BodyLines, MaxBody) \ {<<>>}

Conds == {Lit(BoolV(TRUE)), Lit(BoolV(FALSE)), Paren(BoolV(TRUE)), Paren(BoolV(FALSE))}

\* if c {  A  } else {  B  }   over five lines, and on one line
IfBodies ==
    { <<IfLine(c), a, ElseLine, b, CloseLine>> :
        c \in Conds, a \in {PrintN(1), ReturnLine(Lit(IntV(1)))},
        b \in {PrintN(2), ReturnLine(Lit(IntV(2)))} }
    \cup { <<IfElseOneLine(c)>> : c \in Conds }

\* x = 1;  fn f(p) { body };  r = f(2)
FnProgram(b) ==
    <<AssignLine("x", Lit(IntV(1))), FnLine("f", <<"p">>)>> \o b \o
    <<CloseLine, AssignLine("r", Call("f", <<Lit(IntV(2))>>))>>

FnPrograms == {FnProgram(b) : b \in FlatBodies \cup IfBodies}

\* fn f(p) { b1 };  fn g(q) { b2 };  then calls of f and of g
FnPair(b1, b2, cs) ==
    <<FnLine("f", <<"p">>)>> \o b1 \o <<CloseLine, FnLine("g", <<"q">>)>> \o b2 \o <<CloseLine>> \o cs

PairCalls ==
    { AssignLine("r", Call("f", <<Lit(IntV(2))>>)), AssignLine("s", Call("g", <<Lit(IntV(3))>>)) }

\* fn f(p) { b1 };  r = f(2);  fn g(q) { b2 }
FnBetween(b1, b2) ==
    <<FnLine("f", <<"p">>)>> \o b1 \o <<CloseLine, AssignLine("r", Call("f", <<Lit(IntV(2))>>)),
      FnLine("g", <<"q">>)>> \o b2 \o <<CloseLine>>

FnPairPrograms ==
    { FnPair(<<b1>>, <<b2>>, cs) :
        b1 \in {ReturnLine(Var("p")), ReturnLine(Lit(IntV(1)))},
        b2 \in {ReturnLine(Var("q")), ReturnLine(Lit(IntV(1)))},
        cs \in SeqsUpTo(PairCalls, MaxTop - 1) }
    \cup { FnBetween(<<ReturnLine(Var("p"))>>, <<ReturnLine(Lit(IntV(1)))>>) }

ClassA ==
    <<ClassLine("A"), FieldLine("n", Lit(IntV(0))),
      FnLine("get", <<>>), ReturnLine(Prop("self", <<"n">>)), CloseLine,
      CloseLine>>

\* class Counter { field n = 0  fn init(start) { self.n = start }
\*                 fn inc() { self.n = self.n + 1  return self.n } }
ClassCounter ==
    <<ClassLine("Counter"), FieldLine("n", Lit(IntV(0))),
      FnLine("init", <<"start">>), PAssignLine("self", <<"n">>, Var("start")), CloseLine,
      FnLine("inc", <<>>), PAssignLine("self", <<"n">>, Prop("self", <<"n + 1">>)),
                           ReturnLine(Prop("self", <<"n">>)), CloseLine,
      CloseLine>>

TopItems ==
    { <<AssignLine("x", Lit(IntV(1)))>>,
      <<LetLine("x", Lit(IntV(2)))>>,
      <<AssignLine("r", Var("x"))>>,
      ClassA,
      ClassCounter,
      <<AssignLine("c", Call("A", <<>>))>>,
      <<AssignLine("c", Call("Counter", <<Lit(IntV(5))>>))>>,
      <<AssignLine("r", MCall("c", "get", <<>>))>>,
      <<AssignLine("r", MCall("c", "inc", <<>>))>>,
      <<PAssignLine("c", <<"n">>, Lit(IntV(4)))>>,
      <<PAssignLine("c", <<"_klass">>, Lit(IntV(5)))>>,
      <<ExprLine(Call("nofn", <<>>))>>,
      <<AssignLine("print", Lit(IntV(5)))>>,
      <<ClassLine("Avatar"), CloseLine>> }

TopPrograms == {Flatten(q) : q \in SeqsUpTo(TopItems, MaxTop) \ {<<>>}}

\* class P { field n = print(1) }
ClassP == <<ClassLine("P"), FieldLine("n", Call("print", <<Lit(IntV(1))>>)), CloseLine>>

\* class Q { field b = A() }
ClassQ == <<ClassLine("Q"), FieldLine("b", Call("A", <<>>)), CloseLine>>

NewP == AssignLine("c", Call("P", <<>>))
NewQ == AssignLine("c", Call("Q", <<>>))

\* a class whose field default has an effect, instantiated up to MaxTop times
FieldPrograms ==
    { ClassP \o cs : cs \in SeqsUpTo({NewP}, MaxTop) }
    \cup { ClassA \o ClassQ \o cs : cs \in SeqsUpTo({NewQ, PAssignLine("c", <<"n">>, Lit(IntV(4)))}, MaxTop) }

\* Sources of headers, closes and plain lines, balanced or not
ShapeLines ==
    { ClassLine("A"), BadClassLine("A"), FnLine("f", <<>>), BadFnLine("f"), CloseLine,
      BlankLine, AssignLine("x", Lit(IntV(1))) }

ShapePrograms == SeqsUpTo(ShapeLines, MaxLines) \ {<<>>}

Programs == FnPrograms \cup FnPairPrograms \cup TopPrograms \cup FieldPrograms \cup ShapePrograms

-----------------------------------------------------------------------------
(* KSPLCompiler: tokenize and parse.  A token is a record of one shape:     *)
(* type, and the keys the tokenizer gives that type (value, target, params, *)
(* expr, condition), "" or <<>> or NoExpr where the type has no such key;   *)
(* text is the value of an EXPRESSION or STATEMENT token, the line itself.  *)

Token(type, value, target, params, expr, condition, text, line_num) ==
    [type |-> type, value |-> value, target |-> target, params |-> params, expr |-> expr,
     condition |-> condition, text |-> text, line |-> line_num]

\* The token that one line yields (lines 32-127); the regular expressions are
\* tried in this order.  A line that matches none is an EXPRESSION when it has
\* a '(' and ends with ')', else a STATEMENT: so is the line `}`.
token_of(l, line_num) ==
    CASE l.k = "class"  -> Token("CLASS_DEF", l.n, "", <<>>, NoExpr, NoExpr, BlankLine, line_num)
      [] l.k = "fn"     -> Token("FN_DEF", l.n, "", l.p, NoExpr, NoExpr, BlankLine, line_num)
      [] l.k = "field"  -> Token("FIELD_DEF", l.n, "", <<>>, l.e, NoExpr, BlankLine, line_num)
      [] l.k = "let"    -> Token("LET_DEF", l.n, "", <<>>, l.e, NoExpr, BlankLine, line_num)
      [] l.k \in {"assign", "passign"}
                        -> Token("ASSIGNMENT", "", l.n, l.p, l.e, NoExpr, BlankLine, line_num)
      [] l.k = "return" -> Token("RETURN", "", "", <<>>, l.e, NoExpr, BlankLine, line_num)
      [] l.k = "if"     -> Token("IF_STMT", "", "", <<>>, NoExpr, l.e, BlankLine, line_num)
      [] l.k = "else"   -> Token("ELSE_STMT", "", "", <<>>, NoExpr, NoExpr, BlankLine, line_num)
      [] l.k = "expr" /\ l.e.k \in {"call", "paren"}
                        -> Token("EXPRESSION", "", "", <<>>, NoExpr, NoExpr, l, line_num)
      [] OTHER          -> Token("STATEMENT", "", "", <<>>, NoExpr, NoExpr, l, line_num)

\* line_num is advanced after a blank line and after an EXPRESSION or STATEMENT
\* token only: every other branch ends in `continue` (lines 29, 40, ..., 129).
advances(l) == l.k = "blank" \/ token_of(l, 0).type \in {"EXPRESSION", "STATEMENT"}

RECURSIVE tokenize_from(_, _, _, _)
tokenize_from(lines, idx, line_num, acc) ==
    IF idx > Len(lines) THEN acc
    ELSE tokenize_from(lines, idx + 1,
                       IF advances(lines[idx]) THEN line_num + 1 ELSE line_num,
                       IF lines[idx].k = "blank" THEN acc
                       ELSE Append(acc, token_of(lines[idx], line_num)))

tokenize(lines) == tokenize_from(lines, 1, 1, <<>>)

\* The ast that parse starts from (lines 135-139)
EmptyAst == [classes |-> EmptyDict, global_code |-> <<>>, imports |-> <<>>]

\* The locals of parse: current_class and current_method are held by name
\* ("" is None); the objects they refer to are the entries of ast.classes.
parse_start == [err |-> "", ast |-> EmptyAst, current_class |-> "", current_method |-> ""]

\* current_method['body'].append(x), or ast['global_code'].append(x)
append_code(ps, x) ==
    IF ps.current_method # ""
    THEN [ps EXCEPT !.ast.classes[ps.current_class].methods[ps.current_method].body = Append(@, x)]
    ELSE [ps EXCEPT !.ast.global_code = Append(@, x)]

\* The index of the first token from idx on whose type is in stops, or
\* Len(toks) + 1 (the loops of lines 199 and 206)
RECURSIVE skip_until(_, _, _)
skip_until(toks, idx, stops) ==
    IF idx > Len(toks) \/ toks[idx].type \in stops THEN idx
    ELSE skip_until(toks, idx + 1, stops)

IfNode(tok, then_branch, else_branch) ==
    [type |-> "IF", condition |-> tok.condition, then_branch |-> then_branch,
     else_branch |-> else_branch, line |-> tok.line]

\* The if statement whose IF_STMT token is at idx, and the index parse is at
\* after it (lines 188-213); e is where the then-branch loop stopped.
parse_if(toks, idx, e) ==
    IF e <= Len(toks) /\ toks[e].type = "ELSE_STMT"
    THEN [node |-> IfNode(toks[idx], SubSeq(toks, idx + 1, e - 1),
                          SubSeq(toks, e + 1, skip_until(toks, e + 1, {"BRACE_CLOSE"}) - 1)),
          at |-> skip_until(toks, e + 1, {"BRACE_CLOSE"})]
    ELSE [node |-> IfNode(toks[idx], SubSeq(toks, idx + 1, e - 1), <<>>), at |-> e]

\* One round of the loop of parse on the token at idx, without the if
\* statement (lines 148-186)
parse_token(tok, ps) ==
    CASE tok.type = "CLASS_DEF" ->
            [ps EXCEPT !.ast.classes = DictSet(@, tok.value,
                                               [name |-> tok.value, methods |-> EmptyDict,
                                                fields |-> EmptyDict, line |-> tok.line]),
                       !.current_class = tok.value,
                       !.current_method = ""]
      [] tok.type = "FN_DEF" /\ ps.current_class # "" ->
            [ps EXCEPT !.ast.classes[ps.current_class].methods =
                           DictSet(@, tok.value, [name |-> tok.value, params |-> tok.params,
                                                  body |-> <<>>, line |-> tok.line]),
                       !.current_method = tok.value]
      [] tok.type = "FIELD_DEF" /\ ps.current_class # "" ->
            [ps EXCEPT !.ast.classes[ps.current_class].fields =
                           DictSet(@, tok.value, [expr |-> tok.expr, line |-> tok.line])]
      [] tok.type \in {"LET_DEF", "ASSIGNMENT", "EXPRESSION", "STATEMENT"} ->
            append_code(ps, tok)
      [] tok.type = "RETURN" ->
            IF ps.current_method # "" THEN append_code(ps, tok)
            ELSE [ps EXCEPT !.err = "KSPLCompileError: Return outside of method"]
      [] OTHER -> ps

RECURSIVE parse_tokens(_, _, _)
parse_tokens(toks, idx, ps) ==
    IF idx > Len(toks) \/ ps.err # "" THEN ps
    ELSE IF toks[idx].type = "IF_STMT"
    THEN Bind(parse_if(toks, idx, skip_until(toks, idx + 1, {"ELSE_STMT", "BRACE_CLOSE"})),
              LAMBDA r : parse_tokens(toks, r.at + 1, append_code(ps, r.node)))
    ELSE parse_tokens(toks, idx + 1, parse_token(toks[idx], ps))

\* KSPLCompiler.parse: err, and the ast that is returned when err is ""
compiler_parse(toks) == parse_tokens(toks, 1, parse_start)

-----------------------------------------------------------------------------
(* run                                                                      *)

\* The state in which run(source) starts on a fresh interpreter (lines 20-24)
StartRun(src) ==
    /\ source = src
    /\ statements = <<>>
    /\ phase = "start"
    /\ i = 1
    /\ classes = EmptyDict
    /\ globals = setup_builtins
    /\ heap = <<>>
    /\ out = <<>>
    /\ stack = <<>>
    /\ run_body = <<>>
    /\ run_params = <<>>
    /\ error = ""
    /\ calls = <<>>
    /\ raised = <<>>

\* split_arguments and the compiler at rest
SplitIdle == args_text = <<>> /\ args = <<>> /\ split_done = FALSE

CompileIdle ==
    csource = <<>> /\ tokens = <<>> /\ ast = EmptyAst /\ cphase = "start" /\ cerror = ""

Start(src) == StartRun(src) /\ SplitIdle /\ CompileIdle

Init == \E src \in Programs : Start(src)

Here == State(globals, heap, out)

Commit(st) == globals' = st.globals /\ heap' = st.heap /\ out' = st.out

\* The exception e leaves the statement being executed.
Abort(e) ==
    /\ phase' = RunRaises(e).phase
    /\ error' = RunRaises(e).error
    /\ i' = RunRaises(e).i
    /\ stack' = <<>>
    /\ raised' = Append(raised, [at |-> i, phase |-> phase, err |-> e, g |-> globals, h |-> heap])

\* run goes on with r, the outcome of parse
Parsed(r) ==
    IF r.err # ""
    THEN /\ Abort(r.err)
         /\ UNCHANGED <<statements>>
    ELSE /\ statements' = r.statements
         /\ phase' = "pass1"
         /\ i' = 1
         /\ UNCHANGED <<error, stack, raised>>

\* statements = self.parse(source)   (line 444)
ParseSource ==
    /\ phase = "start"
    /\ Parsed(parse(source))
    /\ UNCHANGED <<source, classes, globals, heap, out, run_body, run_params, calls>>
    /\ UNCHANGED <<split_vars, compile_vars>>

\* run goes on with r, the outcome of load_class(class_name, body)
Loaded(class_name, r) ==
    IF r.err # ""
    THEN /\ Abort(r.err)
         /\ Commit(r.st)
         /\ UNCHANGED classes
    ELSE /\ classes' = DictSet(classes, class_name, r.klass)
         /\ Commit(State(DictSet(r.st.globals, class_name, CtorV(class_name)), r.st.heap, r.st.out))
         /\ i' = i + 1
         /\ UNCHANGED <<phase, error, stack, raised>>

\* First pass, a class statement (lines 448-459)
LoadClass ==
    /\ phase = "pass1" /\ i <= Len(statements)
    /\ statements[i].tag = "class"
    /\ Loaded(statements[i].name, load_class(statements[i].name, statements[i].body, Here))
    /\ run_body' = statements[i].body
    /\ UNCHANGED <<source, statements, run_params, calls>>
    /\ UNCHANGED <<split_vars, compile_vars>>

\* First pass, any other statement
Pass1Skip ==
    /\ phase = "pass1" /\ i <= Len(statements)
    /\ statements[i].tag # "class"
    /\ i' = i + 1
    /\ UNCHANGED <<source, statements, phase, classes, globals, heap, out, stack,
                   run_body, run_params, error, calls, raised>>
    /\ UNCHANGED <<split_vars, compile_vars>>

Pass1End ==
    /\ phase = "pass1" /\ i > Len(statements)
    /\ phase' = "pass2"
    /\ i' = 1
    /\ UNCHANGED <<source, statements, classes, globals, heap, out, stack,
                   run_body, run_params, error, calls, raised>>
    /\ UNCHANGED <<split_vars, compile_vars>>

\* run goes on with r, the outcome of execute_statement(line)
TopExecuted(line, r) ==
    /\ Commit(r.st)
    /\ IF r.err # "" THEN Abort(r.err)
       ELSE IF r.enter
       THEN /\ stack' = <<Frame(r.body, r.cenv, line, globals)>>
            /\ UNCHANGED <<phase, i, error, raised>>
       ELSE /\ i' = i + 1
            /\ UNCHANGED <<phase, error, stack, raised>>

\* Second pass, a 'stmt' statement: self.execute_statement(stmt[1])  (line 464).
\* local_env is a fresh dict, dropped when the statement is done.
ExecTopStatement ==
    /\ phase = "pass2" /\ i <= Len(statements) /\ stack = <<>>
    /\ statements[i].tag = "stmt"
    /\ TopExecuted(statements[i].line, execute_statement(statements[i].line, EmptyDict, Here))
    /\ UNCHANGED <<source, statements, classes, run_body, run_params, calls>>
    /\ UNCHANGED <<split_vars, compile_vars>>

\* Second pass, a 'function' statement (lines 465-471): the lambda registered
\* under fn_name reads run's locals body and params when it is called.
RegisterFunction ==
    /\ phase = "pass2" /\ i <= Len(statements) /\ stack = <<>>
    /\ statements[i].tag = "function"
    /\ run_body' = statements[i].body
    /\ run_params' = statements[i].params
    /\ globals' = DictSet(globals, statements[i].name, LambdaV(statements[i].name))
    /\ i' = i + 1
    /\ UNCHANGED <<source, statements, phase, classes, heap, out, stack, error, calls, raised>>
    /\ UNCHANGED <<split_vars, compile_vars>>

\* Second pass, a 'class' statement: neither branch of lines 463-465 takes it
Pass2Skip ==
    /\ phase = "pass2" /\ i <= Len(statements) /\ stack = <<>>
    /\ statements[i].tag = "class"
    /\ i' = i + 1
    /\ UNCHANGED <<source, statements, phase, classes, globals, heap, out, stack,
                   run_body, run_params, error, calls, raised>>
    /\ UNCHANGED <<split_vars, compile_vars>>

\* run returns
Pass2End ==
    /\ phase = "pass2" /\ i > Len(statements) /\ stack = <<>>
    /\ phase' = "done"
    /\ UNCHANGED <<source, statements, i, classes, globals, heap, out, stack,
                   run_body, run_params, error, calls, raised>>
    /\ UNCHANGED <<split_vars, compile_vars>>

\* execute_block goes on with r, the outcome of execute_statement(stmt, local_env)
\* in the frame f
BodyExecuted(f, r) ==
    /\ Commit(r.st)
    /\ IF r.err # "" THEN Abort(r.err)
       ELSE IF r.enter
       THEN /\ stack' = Append(stack, Frame(r.body, r.cenv, f.body[f.pc], globals))
            /\ UNCHANGED <<phase, i, error, raised>>
       ELSE /\ stack' = [stack EXCEPT ![Len(stack)] =
                           [f EXCEPT !.pc = IF IsReturnSignal(r.res) THEN Len(f.body) + 1 ELSE f.pc + 1,
                                     !.env = r.env,
                                     !.result = r.res,
                                     !.seen = Append(f.seen, f.pc)]]
            /\ UNCHANGED <<phase, i, error, raised>>

\* One turn of the loop of execute_block (lines 435-438)
ExecBodyStatement ==
    /\ phase = "pass2" /\ stack # <<>>
    /\ Top.pc <= Len(Top.body)
    /\ BodyExecuted(Top, execute_statement(Top.body[Top.pc], Top.env, Here))
    /\ UNCHANGED <<source, statements, classes, run_body, run_params, calls>>
    /\ UNCHANGED <<split_vars, compile_vars>>

\* execute_block returns result (line 440); the caller's statement goes on with
\* that value.
Returned(f, below, c) ==
    /\ Commit(c.st)
    /\ calls' = Append(calls, [body |-> f.body, seen |-> f.seen, result |-> f.result,
                               env |-> f.env, g0 |-> f.g0, g1 |-> globals,
                               o0 |-> f.o0, out |-> out, pending |-> f.pending])
    /\ IF c.err # "" THEN Abort(c.err)
       ELSE IF below = <<>>
       THEN /\ stack' = <<>>
            /\ i' = i + 1
            /\ UNCHANGED <<phase, error, raised>>
       ELSE /\ stack' = [below EXCEPT ![Len(below)] =
                           [@ EXCEPT !.pc = @ + 1, !.env = c.env, !.result = c.res,
                                     !.seen = Append(@, below[Len(below)].pc)]]
            /\ UNCHANGED <<phase, i, error, raised>>

\* local_env of the statement that made the call f: the frame below, or the
\* fresh dict of a top-level statement
CallerEnv == IF Len(stack) = 1 THEN EmptyDict ELSE stack[Len(stack) - 1].env

CallReturn ==
    /\ phase = "pass2" /\ stack # <<>>
    /\ Top.pc > Len(Top.body)
    /\ Returned(Top, SubSeq(stack, 1, Len(stack) - 1),
                complete_statement(Top.pending, Top.result, CallerEnv, Here))
    /\ UNCHANGED <<source, statements, classes, run_body, run_params>>
    /\ UNCHANGED <<split_vars, compile_vars>>

Next ==
    \/ ParseSource
    \/ LoadClass
    \/ Pass1Skip
    \/ Pass1End
    \/ ExecTopStatement
    \/ RegisterFunction
    \/ Pass2Skip
    \/ Pass2End
    \/ ExecBodyStatement
    \/ CallReturn

Spec == Init /\ [][Next]_vars

-----------------------------------------------------------------------------
(* What the calls did: the body and the indices of the statements executed, *)
(* of every call that is active or has returned.                            *)

BodiesRun ==
    {[body |-> stack[n].body, seen |-> stack[n].seen] : n \in 1..Len(stack)}
    \cup {[body |-> calls[n].body, seen |-> calls[n].seen] : n \in 1..Len(calls)}

Ended == phase \in {"done", "failed"}

\* C1: inside a function or method body a `return e` ends the call at once: no
\* statement after the return is executed, and the call's result is the value
\* of e (stated for the first return of the body when e is a literal).
C1_ReturnEndsCall ==
    /\ \A a \in BodiesRun : \A m \in 1..Len(a.seen) : \A k \in 1..(a.seen[m] - 1) :
            a.body[k].k # "return"
    /\ \A n \in 1..Len(calls) : \A k \in 1..Len(calls[n].body) :
            ( /\ calls[n].body[k].k = "return"
              /\ calls[n].body[k].e.k = "lit"
              /\ \A j \in 1..(k - 1) : calls[n].body[j].k # "return" )
            => calls[n].result = calls[n].body[k].e.v

IsIfElse(b) ==
    Len(b) = 5 /\ b[1].k = "if" /\ b[1].o = 1 /\ b[3].k = "else" /\ b[5].k = "close"

ReturnsOneOrTwo(c) ==
    { FnProgram(<<IfLine(c), ReturnLine(Lit(IntV(1))), ElseLine, ReturnLine(Lit(IntV(2))), CloseLine>>),
      FnProgram(<<IfElseOneLine(c)>>) }

\* C2: of `if cond { A } else { B }` in a function exactly one branch runs: A and
\* nothing of B when cond is true, B and nothing of A when cond is false; and the
\* function with the branches `return 1` and `return 2` evaluates to 1 for true
\* and to 2 for false.
C2_ExactlyOneBranch ==
    /\ \A a \in BodiesRun : IsIfElse(a.body) =>
          \A m \in 1..Len(a.seen) :
              /\ a.body[1].e.v = BoolV(TRUE)  => a.seen[m] # 4
              /\ a.body[1].e.v = BoolV(FALSE) => a.seen[m] # 2
    /\ \A c \in Conds :
          (source \in ReturnsOneOrTwo(c) /\ Ended) =>
              /\ phase = "done"
              /\ "r" \in DOMAIN globals
              /\ globals["r"] = IntV(IF c.v = BoolV(TRUE) THEN 1 ELSE 2)

NewCounter5 == <<AssignLine("c", Call("Counter", <<Lit(IntV(5))>>))>>
CallInc     == <<AssignLine("r", MCall("c", "inc", <<>>))>>

\* class Counter; c = Counter(5); then m times r = c.inc()
CounterProgram(m) == Flatten(<<ClassCounter, NewCounter5>> \o [j \in 1..m |-> CallInc])

\* C3: Counter(s) runs init with start = s and self the new instance, and then
\* the k-th inc() returns s + k and leaves n = s + k: after Counter(5) and m
\* calls of inc(), run has ended normally with c.n = 5 + m and, for m > 0, the
\* last result 5 + m.
C3_CounterCounts ==
    \A m \in 0..MaxTop :
        (source = CounterProgram(m) /\ Ended) =>
            /\ phase = "done"
            /\ "c" \in DOMAIN globals
            /\ globals["c"].t = "obj"
            /\ heap[globals["c"].v]["n"] = IntV(5 + m)
            /\ m > 0 => ("r" \in DOMAIN globals /\ globals["r"] = IntV(5 + m))

\* line k of body b writes the plain name nm
WritesName(b, k, nm) == b[k].k \in {"let", "assign"} /\ b[k].n = nm

\* the value the last write of nm before line j gave it, a literal
LastWritten(b, j, nm) ==
    b[CHOOSE m \in 1..(j - 1) :
        WritesName(b, m, nm) /\ \A m2 \in (m + 1)..(j - 1) : ~WritesName(b, m2, nm)].e.v

WritesLiterals(b, nm) == \A m \in 1..Len(b) : WritesName(b, m, nm) => b[m].e.k = "lit"

IsPrintOf(line, nm) == line = ExprLine(Call("print", <<Var(nm)>>))

IsPrint(line) == line.k = "expr" /\ line.e.k = "call" /\ line.e.n = "print" /\ line.e.p = <<>>

PrintsUpTo(b, j) == Cardinality({m \in 1..j : IsPrint(b[m])})

\* C4: a `let x = e` executed in a function or method body binds x in the local
\* scope of that call only.  For every returned call in which a let is the first
\* write of the name: the name is bound in the call's local_env; every later read
\* in the call (print(x), return x) sees the value last written to the local x;
\* and at the return the global x is what it was when the call began (bound to
\* the same value, or still unbound).
C4_LetIsLocal ==
    \A n \in 1..Len(calls) : \A k \in 1..Len(calls[n].body) :
        ( /\ calls[n].body[k].k = "let"
          /\ \A j \in 1..(k - 1) : ~WritesName(calls[n].body, j, calls[n].body[k].n) )
        =>
        /\ calls[n].body[k].n \in DOMAIN calls[n].env
        /\ calls[n].body[k].n \in DOMAIN calls[n].g0 =>
              /\ calls[n].body[k].n \in DOMAIN calls[n].g1
              /\ calls[n].g1[calls[n].body[k].n] = calls[n].g0[calls[n].body[k].n]
        /\ calls[n].body[k].n \notin DOMAIN calls[n].g0 => calls[n].body[k].n \notin DOMAIN calls[n].g1
        /\ \A j \in (k + 1)..Len(calls[n].body) :
              WritesLiterals(calls[n].body, calls[n].body[k].n) =>
                /\ ( /\ j = Len(calls[n].body)
                     /\ calls[n].body[j] = ReturnLine(Var(calls[n].body[k].n)) )
                   => calls[n].result = LastWritten(calls[n].body, j, calls[n].body[k].n)
                /\ ( /\ IsPrintOf(calls[n].body[j], calls[n].body[k].n)
                     /\ calls[n].g0["print"] = HostV("print") )
                   => calls[n].out[calls[n].o0 + PrintsUpTo(calls[n].body, j)]
                        = <<LastWritten(calls[n].body, j, calls[n].body[k].n)>>

\* A call of f whose body is  let x = 7; print(x); return x  has returned 7 and
\* printed 7 while the global x is still 1.
C4_Witness ==
    /\ phase = "done"
    /\ \E n \in 1..Len(calls) :
          /\ calls[n].body = <<LetLine("x", Lit(IntV(7))), PrintX, ReturnLine(Var("x"))>>
          /\ calls[n].result = IntV(7)
          /\ calls[n].out = <<<<IntV(7)>>>>
          /\ calls[n].g0["x"] = IntV(1)
    /\ globals["x"] = IntV(1)
    /\ globals["r"] = IntV(7)

-----------------------------------------------------------------------------
(* split_arguments.  Text is a sequence of one-character strings.           *)

Space == " "
DQuote == "\""
SQuote == "'"

RECURSIVE lstrip(_)
lstrip(t) == IF t # <<>> /\ Head(t) = Space THEN lstrip(Tail(t)) ELSE t

RECURSIVE rstrip(_)
rstrip(t) == IF t # <<>> /\ t[Len(t)] = Space THEN rstrip(SubSeq(t, 1, Len(t) - 1)) ELSE t

\* str.strip()
strip(t) == rstrip(lstrip(t))

\* The locals of split_arguments before the loop (lines 313-317); string_char
\* None is "".
split_start == [args |-> <<>>, current |-> <<>>, depth |-> 0, in_string |-> FALSE, string_char |-> ""]

\* A loop body that splits at every comma outside a string, whatever the depth
split_char_any_depth(char, st) ==
    IF char \in {DQuote, SQuote}
    THEN IF ~st.in_string
         THEN [st EXCEPT !.in_string = TRUE, !.string_char = char, !.current = Append(@, char)]
         ELSE IF st.string_char = char
         THEN [st EXCEPT !.in_string = FALSE, !.string_char = "", !.current = Append(@, char)]
         ELSE [st EXCEPT !.current = Append(@, char)]
    ELSE IF ~st.in_string /\ char = ","
    THEN [st EXCEPT !.args = Append(@, strip(st.current)), !.current = <<>>]
    ELSE [st EXCEPT !.current = Append(@, char)]

\* One iteration of the loop (lines 321-345)
split_char(char, st) ==
    IF char \in {DQuote, SQuote}
    THEN IF ~st.in_string
         THEN [st EXCEPT !.in_string = TRUE, !.string_char = char, !.current = Append(@, char)]
         ELSE IF st.string_char = char
         THEN [st EXCEPT !.in_string = FALSE, !.string_char = "", !.current = Append(@, char)]
         ELSE [st EXCEPT !.current = Append(@, char)]
    ELSE IF ~st.in_string /\ char = "("
    THEN [st EXCEPT !.depth = @ + 1, !.current = Append(@, char)]
    ELSE IF ~st.in_string /\ char = ")"
    THEN [st EXCEPT !.depth = @ - 1, !.current = Append(@, char)]
    ELSE IF ~st.in_string /\ st.depth = 0 /\ char = ","
    THEN [st EXCEPT !.args = Append(@, strip(st.current)), !.current = <<>>]
    ELSE [st EXCEPT !.current = Append(@, char)]

\* The loop from index k on (line 320)
RECURSIVE split_loop(_, _, _)
split_loop(text, k, st) ==
    IF k > Len(text) THEN st ELSE split_loop(text, k + 1, split_char(text[k], st))

\* After the loop (lines 347-350)
split_end(st) == IF st.current # <<>> THEN Append(st.args, strip(st.current)) ELSE st.args

split_arguments(text) == split_end(split_loop(text, 1, split_start))

MaxArgLen == 5    \* characters in a drawn argument text

ArgChars == {"a", ",", "(", ")", DQuote, SQuote, Space}

\* the argument text of f(g(1,2), "a,b", 3)
ExampleArgs ==
    <<"g", "(", "1", ",", "2", ")", ",", Space, DQuote, "a", ",", "b", DQuote, ",", Space, "3">>

\* eval_function_call hands over the stripped text between the parentheses
\* of the call, and only when it is not empty (lines 277, 281-282).
ArgTexts ==
    {t \in SeqsUpTo(ArgChars, MaxArgLen) \cup {ExampleArgs} : t # <<>> /\ strip(t) = t}

InitSplit ==
    /\ StartRun(<<>>)
    /\ CompileIdle
    /\ args_text \in ArgTexts
    /\ args = <<>>
    /\ split_done = FALSE

SplitArguments ==
    /\ ~split_done
    /\ args' = split_arguments(args_text)
    /\ split_done' = TRUE
    /\ UNCHANGED args_text
    /\ UNCHANGED <<run_vars, compile_vars>>

NextSplit == SplitArguments

SpecSplit == InitSplit /\ [][NextSplit]_vars

-----------------------------------------------------------------------------
(* KSPLCompiler.compile: tokenize, then parse (lines 219-223)               *)

MaxCLines == 5    \* lines in a drawn compiler source

CompLines ==
    { ClassLine("A"), FnLine("m", <<>>), ReturnLine(Lit(IntV(1))), AssignLine("x", Lit(IntV(1))),
      IfLine(Lit(BoolV(TRUE))), ElseLine, CloseLine, BlankLine }

CompSources == SeqsUpTo(CompLines, MaxCLines) \ {<<>>}

InitCompile ==
    /\ StartRun(<<>>)
    /\ SplitIdle
    /\ csource \in CompSources
    /\ tokens = <<>>
    /\ ast = EmptyAst
    /\ cphase = "start"
    /\ cerror = ""

Tokenize ==
    /\ cphase = "start"
    /\ tokens' = tokenize(csource)
    /\ cphase' = "tokenized"
    /\ UNCHANGED <<csource, ast, cerror>>
    /\ UNCHANGED <<run_vars, split_vars>>

CompilerParsed(r) ==
    IF r.err # ""
    THEN cphase' = "failed" /\ cerror' = r.err /\ UNCHANGED ast
    ELSE cphase' = "parsed" /\ ast' = r.ast /\ UNCHANGED cerror

CompilerParse ==
    /\ cphase = "tokenized"
    /\ CompilerParsed(compiler_parse(tokens))
    /\ UNCHANGED <<csource, tokens>>
    /\ UNCHANGED <<run_vars, split_vars>>

NextCompile == Tokenize \/ CompilerParse

SpecCompile == InitCompile /\ [][NextCompile]_vars

\* the quote character of the string literal that is open after the first k
\* characters of t, "" when none is
RECURSIVE OpenQuote(_, _)
OpenQuote(t, k) ==
    IF k = 0 THEN ""
    ELSE IF t[k] \notin {DQuote, SQuote} THEN OpenQuote(t, k - 1)
    ELSE IF OpenQuote(t, k - 1) = "" THEN t[k]
    ELSE IF OpenQuote(t, k - 1) = t[k] THEN ""
    ELSE OpenQuote(t, k - 1)

Outside(t, k) == OpenQuote(t, k - 1) = "" /\ OpenQuote(t, k) = ""

\* the number of parentheses open after the first k characters of t
ParenDepth(t, k) ==
    Cardinality({m \in 1..k : t[m] = "(" /\ Outside(t, m)})
        - Cardinality({m \in 1..k : t[m] = ")" /\ Outside(t, m)})

\* the positions of the commas outside every parenthesis pair and every string
TopCommas(t) == {k \in 1..Len(t) : t[k] = "," /\ Outside(t, k) /\ ParenDepth(t, k) = 0}

\* the position of the j-th top-level comma; 0 before the first argument and
\* Len(t) + 1 after the last
Cut(t, j) ==
    IF j = 0 THEN 0
    ELSE IF j > Cardinality(TopCommas(t)) THEN Len(t) + 1
    ELSE CHOOSE k \in TopCommas(t) : Cardinality({m \in TopCommas(t) : m <= k}) = j

\* the text of the j-th argument
Piece(t, j) == strip(SubSeq(t, Cut(t, j - 1) + 1, Cut(t, j) - 1))

\* Well-formed argument text: every string literal is closed, the parentheses
\* are balanced, and there is an argument before and after every top-level comma.
WellFormed(t) ==
    /\ OpenQuote(t, Len(t)) = ""
    /\ \A k \in 1..Len(t) : ParenDepth(t, k) >= 0
    /\ ParenDepth(t, Len(t)) = 0
    /\ \A j \in 1..(Cardinality(TopCommas(t)) + 1) : Piece(t, j) # <<>>

\* C5: split_arguments splits only at commas outside every parenthesis pair and
\* every string literal: for well-formed argument text it returns as many
\* arguments as there are such top-level commas plus one, each the stripped text
\* between two neighbouring top-level commas; g(1,2), "a,b", 3 yields the three
\* arguments g(1,2), "a,b" and 3.
C5_SplitsAtTopLevelCommas ==
    (split_done /\ WellFormed(args_text)) =>
        /\ Len(args) = Cardinality(TopCommas(args_text)) + 1
        /\ \A j \in 1..Len(args) : args[j] = Piece(args_text, j)
        /\ args_text = ExampleArgs =>
              args = << <<"g", "(", "1", ",", "2", ")">>, <<DQuote, "a", ",", "b", DQuote>>, <<"3">> >>

\* the example text has been split, into three arguments
C5_Witness ==
    /\ split_done
    /\ args_text = ExampleArgs
    /\ WellFormed(args_text)
    /\ Len(args) = 3

\* The block depth after line j of the block that the header at line s opens
RECURSIVE DepthAfter(_, _, _)
DepthAfter(src, s, j) ==
    IF j <= s THEN 1 ELSE DepthAfter(src, s, j - 1) + src[j].o - src[j].c

\* Some class or function header opens a block that no later line closes.
Unterminated(src) ==
    \E s \in 1..Len(src) :
        /\ src[s].k \in {"class", "fn"}
        /\ \A j \in (s + 1)..Len(src) : DepthAfter(src, s, j) > 0

\* C6: when a class or function header of the source opens a block that is not
\* closed before the end of input, parsing fails (the error is raised by parse,
\* before the first pass) and no program is returned.
C6_UnterminatedBlockRejected ==
    (Unterminated(source) /\ phase # "start") =>
        /\ phase = "failed"
        /\ raised # <<>>
        /\ raised[1].phase = "start"
        /\ statements = <<>>

\* C7: the failure of a top-level statement is never swallowed.  Once a statement
\* has raised, run has ended with that exception, run is still at the failing
\* statement (no later statement has been executed, no second exception raised),
\* and every global binding and every instance that existed when it was raised
\* still has the value it had then.
C7_FailurePropagates ==
    raised # <<>> =>
        /\ Len(raised) = 1
        /\ phase = "failed"
        /\ error = raised[1].err
        /\ i = raised[1].at
        /\ stack = <<>>
        /\ \A nm \in DOMAIN raised[1].g : nm \in DOMAIN globals /\ globals[nm] = raised[1].g[nm]
        /\ \A r \in 1..Len(raised[1].h) : r <= Len(heap) /\ heap[r] = raised[1].h[r]

\* x = 1 was executed, then the call of the undeclared nofn failed: run has
\* ended with that error, x is still 1, and the statement after it was not run.
C7_Witness ==
    /\ phase = "failed"
    /\ error = "KSPLRuntimeError: Function not found"
    /\ source = Flatten(<< <<AssignLine("x", Lit(IntV(1)))>>, <<ExprLine(Call("nofn", <<>>))>>,
                           <<AssignLine("r", Var("x"))>> >>)
    /\ i = 2
    /\ globals["x"] = IntV(1)
    /\ "r" \notin DOMAIN globals

\* the top-level statement at index n is `.. = C(..)` or `C(..)` for a class C
\* that the source declares after it
ConstructsLaterClass(n) ==
    /\ statements[n].tag = "stmt"
    /\ statements[n].line.e.k = "call"
    /\ statements[n].line.e.p = <<>>
    /\ \E m \in (n + 1)..Len(statements) :
          statements[m].tag = "class" /\ statements[m].name = statements[n].line.e.n

\* C8: run loads every class of the source before it executes a top-level
\* statement, so a top-level statement that constructs a class succeeds also
\* when the class is declared later in the source.
C8_ClassesLoadedFirst ==
    /\ phase = "pass2" =>
          \A n \in 1..Len(statements) :
              statements[n].tag = "class" => statements[n].name \in DOMAIN classes
    /\ \A m \in 1..Len(raised) :
          ~(raised[m].phase = "pass2" /\ ConstructsLaterClass(raised[m].at))

\* C9: every name that setup_builtins seeded is still bound in globals to the
\* value it was seeded with.
C9_BuiltinsReadOnly ==
    \A nm \in DOMAIN setup_builtins :
        nm \in DOMAIN globals /\ globals[nm] = setup_builtins[nm]

\* C10: no step changes the class reference of an existing instance.
C10_ClassRefFixed ==
    [][\A r \in 1..Len(heap) : heap'[r]["_klass"] = heap[r]["_klass"]]_vars

\* line k of body b is the first write of the name nm in b
FirstWrite(b, k, nm) == WritesName(b, k, nm) /\ \A j \in 1..(k - 1) : ~WritesName(b, j, nm)

\* C11: a plain assignment x = e in a call updates the scope that owns x, and
\* creates x in the call's local scope when no scope owns it.  For every
\* returned call whose first write of a name is a plain assignment: when only
\* the global scope owns the name, the global has the value last assigned; when
\* the name was bound in no scope, the global namespace has no binding for it
\* after the call has returned.
C11_AssignmentScope ==
    \A n \in 1..Len(calls) : \A k \in 1..Len(calls[n].body) :
        ( /\ calls[n].body[k].k = "assign"
          /\ FirstWrite(calls[n].body, k, calls[n].body[k].n) )
        =>
        /\ ( /\ calls[n].body[k].n \in DOMAIN calls[n].g0
             /\ calls[n].body[k].n \notin DOMAIN calls[n].env
             /\ WritesLiterals(calls[n].body, calls[n].body[k].n) )
           => calls[n].g1[calls[n].body[k].n]
                = LastWritten(calls[n].body, Len(calls[n].body) + 1, calls[n].body[k].n)
        /\ calls[n].body[k].n \notin DOMAIN calls[n].g0
           => calls[n].body[k].n \notin DOMAIN calls[n].g1

\* the top-level statement at index n is  let nm = <literal>
IsTopLet(n, nm) ==
    /\ statements[n].tag = "stmt"
    /\ statements[n].line.k = "let"
    /\ statements[n].line.n = nm
    /\ statements[n].line.e.k = "lit"

\* the top-level statement at index n may bind nm: a let of nm, an assignment
\* to nm, or a declaration of a class or function named nm
TopWrites(n, nm) ==
    \/ statements[n].tag # "stmt" /\ statements[n].name = nm
    \/ statements[n].tag = "stmt" /\ WritesName(<<statements[n].line>>, 1, nm)

\* C12: a let x = e executed as a top-level statement binds x for the rest of the
\* top level.  When r = x is the next top-level statement after let x = v that
\* concerns x, it does not fail, and once it has been executed r is v.
C12_TopLevelLetPersists ==
    \A a \in 1..Len(statements) : \A b \in (a + 1)..Len(statements) :
        ( /\ IsTopLet(a, "x")
          /\ statements[b].tag = "stmt"
          /\ statements[b].line = AssignLine("r", Var("x"))
          /\ \A m \in (a + 1)..(b - 1) : ~TopWrites(m, "x") )
        =>
        /\ (phase = "pass2" /\ i = b + 1 /\ stack = <<>>) =>
              ("r" \in DOMAIN globals /\ globals["r"] = statements[a].line.e.v)
        /\ ~(phase = "failed" /\ i = b /\ raised # <<>> /\ raised[1].phase = "pass2")

\* the call recorded at calls[n] was made by calling the top-level function
\* declared by statement m by its name
CallsDeclared(n, m) ==
    /\ statements[m].tag = "function"
    /\ calls[n].pending.e.k = "call"
    /\ calls[n].pending.e.p = <<>>
    /\ calls[n].pending.e.n = statements[m].name

\* C15: every top-level function declaration is its own global callable.  Every
\* returned call of a declared function by its name has executed the body of
\* that declaration, with the declaration's parameters bound in its local_env,
\* to the call's arguments.
C15_OwnCallable ==
    \A n \in 1..Len(calls) : \A m \in 1..Len(statements) :
        CallsDeclared(n, m) =>
            /\ calls[n].body = statements[m].body
            /\ \A j \in 1..Len(statements[m].params) :
                  /\ statements[m].params[j] \in DOMAIN calls[n].env
                  /\ ( /\ j <= Len(calls[n].pending.e.a)
                       /\ calls[n].pending.e.a[j].k = "lit"
                       /\ \A k \in 1..Len(calls[n].body) :
                             ~WritesName(calls[n].body, k, statements[m].params[j]) )
                     => calls[n].env[statements[m].params[j]] = calls[n].pending.e.a[j].v

\* the instances of class cn
InstancesOf(cn) == {r \in 1..Len(heap) : heap[r]["_klass"] = ClassV(cn)}

\* how many times print(1) has been evaluated
PrintedOnes == Cardinality({k \in 1..Len(out) : out[k] = <<IntV(1)>>})

\* C14: each instantiation evaluates the field defaults anew.  In a source whose
\* only print is the field default of class P, print(1) has been evaluated as
\* many times as P has been instantiated; and no two instances hold, in the same
\* field, the same object.
C14_DefaultsPerInstance ==
    /\ source \in {ClassP \o cs : cs \in SeqsUpTo({NewP}, MaxTop)} =>
          PrintedOnes = Cardinality(InstancesOf("P"))
    /\ \A r1 \in 1..Len(heap) : \A r2 \in 1..Len(heap) :
          r1 # r2 =>
              \A fld \in (DOMAIN heap[r1] \cap DOMAIN heap[r2]) \ {"_klass"} :
                  heap[r1][fld].t = "obj" => heap[r1][fld] # heap[r2][fld]

\* line k of src lies in the body of a function: the block of some fn header
\* before it is still open at k
InFunction(src, k) ==
    \E h \in 1..(k - 1) :
        /\ src[h].k = "fn"
        /\ \A j \in (h + 1)..k : DepthAfter(src, h, j) > 0

ReturnsOutside(src) == {k \in 1..Len(src) : src[k].k = "return" /\ ~InFunction(src, k)}
ReturnsInside(src)  == {k \in 1..Len(src) : src[k].k = "return" /\ InFunction(src, k)}

ReturnTokens(body) == {j \in 1..Len(body) : body[j].type = "RETURN"}

\* C13: the compiler's parse fails for every token stream in which a return
\* appears outside any function body, and no such return is appended to the
\* body of a method parsed before it: when the source has a return outside every
\* function body, parse has raised "Return outside of method"; and a method body
\* of a returned ast holds no more RETURN tokens than the source has returns
\* inside function bodies.
C13_ReturnOutsideRejected ==
    cphase \in {"parsed", "failed"} =>
        /\ ReturnsOutside(csource) # {} =>
              /\ cphase = "failed"
              /\ cerror = "KSPLCompileError: Return outside of method"
        /\ \A c \in DOMAIN ast.classes : \A m \in DOMAIN ast.classes[c].methods :
              Cardinality(ReturnTokens(ast.classes[c].methods[m].body))
                  <= Cardinality(ReturnsInside(csource))

\* the lines that yield a token, in order
NonBlank(src) == SelectSeq(src, LAMBDA l : l.k # "blank")

LinesOfKind(nb, k) == {j \in 1..Len(nb) : nb[j].k = k}

\* nb is top-level code with one if statement: one `if c {`, at most one
\* `} else {` after it, one `}` after both, and no class or function
OneIf(nb) ==
    /\ Cardinality(LinesOfKind(nb, "if")) = 1
    /\ Cardinality(LinesOfKind(nb, "close")) = 1
    /\ Cardinality(LinesOfKind(nb, "else")) <= 1
    /\ LinesOfKind(nb, "class") \cup LinesOfKind(nb, "fn") \cup LinesOfKind(nb, "return") = {}
    /\ \A h \in LinesOfKind(nb, "if") : \A e \in LinesOfKind(nb, "else") :
          \A c \in LinesOfKind(nb, "close") : h < e /\ e < c
    /\ \A h \in LinesOfKind(nb, "if") : \A c \in LinesOfKind(nb, "close") : h < c

IfAt(nb)    == CHOOSE h \in LinesOfKind(nb, "if") : TRUE
CloseAt(nb) == CHOOSE c \in LinesOfKind(nb, "close") : TRUE
ElseAt(nb)  == CHOOSE e \in LinesOfKind(nb, "else") : TRUE

\* the branches that the if statement of nb has in the source
ThenOf(nb, toks) ==
    IF LinesOfKind(nb, "else") = {} THEN SubSeq(toks, IfAt(nb) + 1, CloseAt(nb) - 1)
    ELSE SubSeq(toks, IfAt(nb) + 1, ElseAt(nb) - 1)

ElseOf(nb, toks) ==
    IF LinesOfKind(nb, "else") = {} THEN <<>>
    ELSE SubSeq(toks, ElseAt(nb) + 1, CloseAt(nb) - 1)

\* C16: a line that is only `}` is scanned into a block-close token, not a
\* generic statement token, and the branches of an if statement that parse builds
\* hold exactly the statements between the header and the matching `}`: for
\* top-level code with one if statement the ast has one IF node, with the
\* then-branch and the else-branch of the source.
C16_BlockCloseToken ==
    /\ cphase # "start" =>
          /\ Len(tokens) = Len(NonBlank(csource))
          /\ \A j \in 1..Len(tokens) :
                NonBlank(csource)[j].k = "close" => tokens[j].type = "BRACE_CLOSE"
    /\ (cphase = "parsed" /\ OneIf(NonBlank(csource))) =>
          /\ Cardinality({j \in 1..Len(ast.global_code) : ast.global_code[j].type = "IF"}) = 1
          /\ \A j \in 1..Len(ast.global_code) :
                ast.global_code[j].type = "IF" =>
                    /\ ast.global_code[j].then_branch = ThenOf(NonBlank(csource), tokens)
                    /\ ast.global_code[j].else_branch = ElseOf(NonBlank(csource), tokens)

====
